---- MODULE Spec2Model ----
(***************************************************************************)
(* i3widgets: a run-once status-line formatter.  Each invocation selects   *)
(* one subcommand, reads the text printed by an external utility, parses   *)
(* it into a typed reading, formats it and prints one line.                *)
(*                                                                         *)
(* Text is modelled by TLA+ strings; the parsers work on them character by *)
(* character (Len, SubSeq, \o), as the Rust code does through str methods. *)
(* Option<T> is a sequence of length 0 (None) or 1 (Some).  An f64 is an   *)
(* exact rational [n |-> numerator, d |-> positive denominator]; the       *)
(* numerals of the modelled outputs are short decimals on which the        *)
(* rational and the double arithmetic print the same percentage and        *)
(* duration, and stay far below the u64 and i32 limits.  The backquote of  *)
(* the error messages is written ' here, and a glyph by its code point.    *)
(***************************************************************************)
EXTENDS Integers, Sequences, FiniteSets, TLC

VARIABLES pc, cmd, args, input, reading, stdout, stderr, exit

vars == <<pc, cmd, args, input, reading, stdout, stderr, exit>>

(***************************************************************************)
(* Option and Result values.                                               *)
(***************************************************************************)
None == <<>>
Some(v) == <<v>>
IsSome(o) == Len(o) = 1
Unwrap(o) == o[1]

Ok(v) == [tag |-> "Ok", val |-> v, msg |-> ""]
Err(m) == [tag |-> "Err", val |-> <<>>, msg |-> m]
Panic(m) == [tag |-> "Panic", val |-> <<>>, msg |-> m]
NoReading == [tag |-> "None", val |-> <<>>, msg |-> ""]
IsOk(r) == r.tag = "Ok"
IsErr(r) == r.tag = "Err"
IsPanic(r) == r.tag = "Panic"

(***************************************************************************)
(* str methods of the Rust standard library used by the parsers.           *)
(***************************************************************************)
CharAt(s, i) == SubSeq(s, i, i)

IsWhitespace(c) == c \in {" ", "\t", "\n", "\r"}

\* index of the first character of s at or after from that is (or is not)
\* whitespace, or is a newline: Len(s) + 1 when there is none; and of the last
\* character at or before to that is not whitespace: 0 when there is none
RECURSIVE FirstWhitespace(_, _)
FirstWhitespace(s, from) ==
    IF from > Len(s) \/ IsWhitespace(CharAt(s, from)) THEN from
    ELSE FirstWhitespace(s, from + 1)

RECURSIVE FirstNonWhitespace(_, _)
FirstNonWhitespace(s, from) ==
    IF from > Len(s) \/ ~IsWhitespace(CharAt(s, from)) THEN from
    ELSE FirstNonWhitespace(s, from + 1)

RECURSIVE LastNonWhitespace(_, _)
LastNonWhitespace(s, to) ==
    IF to = 0 \/ ~IsWhitespace(CharAt(s, to)) THEN to
    ELSE LastNonWhitespace(s, to - 1)

RECURSIVE FirstNewline(_, _)
FirstNewline(s, from) ==
    IF from > Len(s) \/ CharAt(s, from) = "\n" THEN from
    ELSE FirstNewline(s, from + 1)

trim_start(s) == SubSeq(s, FirstNonWhitespace(s, 1), Len(s))

trim_end(s) == SubSeq(s, 1, LastNonWhitespace(s, Len(s)))

trim(s) == trim_end(trim_start(s))

starts_with(s, p) == Len(s) >= Len(p) /\ SubSeq(s, 1, Len(p)) = p

contains(s, p) ==
    \E i \in 1..(Len(s) - Len(p) + 1) : SubSeq(s, i, i + Len(p) - 1) = p

\* str::lines: split at "\n", drop one "\r" before it, no final empty line
StripCr(s) ==
    IF Len(s) > 0 /\ CharAt(s, Len(s)) = "\r" THEN SubSeq(s, 1, Len(s) - 1) ELSE s

RECURSIVE LinesFrom(_, _)
LinesFrom(s, start) ==
    IF start > Len(s) THEN <<>>
    ELSE LET nl == FirstNewline(s, start)
         IN <<StripCr(SubSeq(s, start, nl - 1))>> \o LinesFrom(s, nl + 1)

lines(s) == LinesFrom(s, 1)

\* str::split_whitespace: the maximal runs of non-whitespace characters
RECURSIVE SplitFrom(_, _)
SplitFrom(s, from) ==
    LET start == FirstNonWhitespace(s, from)
        end == FirstWhitespace(s, start)
    IN IF start > Len(s) THEN <<>>
       ELSE <<SubSeq(s, start, end - 1)>> \o SplitFrom(s, end)

split_whitespace(s) == SplitFrom(s, 1)

\* Iterator::nth(n) on the remaining items: the item, and what is left
nth(it, n) ==
    [item |-> IF Len(it) > n THEN Some(it[n + 1]) ELSE None,
     rest |-> SubSeq(it, n + 2, Len(it))]

\* as find_prefix with the last matching line taken
find_prefix_last(ls, prefix) ==
    LET matching == {i \in 1..Len(ls) : starts_with(trim_start(ls[i]), prefix)}
    IN IF matching = {} THEN None
       ELSE Some(ls[CHOOSE i \in matching : \A j \in matching : j <= i])

\* Iterator::find(pred), pred being "left-trimmed line starts with prefix"
RECURSIVE find_prefix(_, _)
find_prefix(ls, prefix) ==
    IF Len(ls) = 0 THEN None
    ELSE IF starts_with(trim_start(Head(ls)), prefix) THEN Some(Head(ls))
    ELSE find_prefix(Tail(ls), prefix)

\* Iterator::skip(n)
skip(it, n) == SubSeq(it, n + 1, Len(it))

(***************************************************************************)
(* Numbers to text and text to numbers.                                    *)
(***************************************************************************)
Digits == <<"0", "1", "2", "3", "4", "5", "6", "7", "8", "9">>
IsDigit(c) == \E i \in 1..10 : Digits[i] = c
DigitVal(c) == (CHOOSE i \in 1..10 : Digits[i] = c) - 1

\* Display for unsigned integers
RECURSIVE NatToString(_)
NatToString(n) ==
    IF n < 10 THEN Digits[n + 1]
    ELSE NatToString(n \div 10) \o Digits[(n % 10) + 1]

\* Display for i32
IntToString(n) == IF n < 0 THEN "-" \o NatToString(-n) ELSE NatToString(n)

\* as Fmt02 with the width left out of the format string
Fmt02_unpadded(n) == NatToString(n)

\* format!("{:02}", n): a minimum width of two, zero filled
Fmt02(n) == IF Len(NatToString(n)) < 2 THEN "0" \o NatToString(n) ELSE NatToString(n)

AllDigits(s) == \A i \in 1..Len(s) : IsDigit(CharAt(s, i))

RECURSIVE DigitsValue(_)
DigitsValue(s) ==
    IF Len(s) = 0 THEN 0
    ELSE DigitsValue(SubSeq(s, 1, Len(s) - 1)) * 10 + DigitVal(CharAt(s, Len(s)))

RECURSIVE Pow10(_)
Pow10(k) == IF k = 0 THEN 1 ELSE 10 * Pow10(k - 1)

\* str::parse::<u64>: an optional "+", then one or more digits
parse_u64(tok) ==
    LET body == IF starts_with(tok, "+") THEN SubSeq(tok, 2, Len(tok)) ELSE tok
    IN IF Len(tok) = 0 THEN Err("cannot parse integer from empty string")
       ELSE IF Len(body) = 0 \/ ~AllDigits(body) THEN Err("invalid digit found in string")
       ELSE Ok(DigitsValue(body))

\* str::parse::<f64> for decimal literals: sign, digits, ".", digits
DotAt(s) == IF contains(s, ".") THEN CHOOSE i \in 1..Len(s) : CharAt(s, i) = "." ELSE 0

parse_f64(tok) ==
    LET neg == starts_with(tok, "-")
        body == IF neg \/ starts_with(tok, "+") THEN SubSeq(tok, 2, Len(tok)) ELSE tok
        dot == DotAt(body)
        ip == IF dot = 0 THEN body ELSE SubSeq(body, 1, dot - 1)
        fp == IF dot = 0 THEN "" ELSE SubSeq(body, dot + 1, Len(body))
        mag == DigitsValue(ip) * Pow10(Len(fp)) + DigitsValue(fp)
    IN IF Len(ip) + Len(fp) > 0 /\ AllDigits(ip) /\ AllDigits(fp)
       THEN Ok([n |-> IF neg THEN -mag ELSE mag, d |-> Pow10(Len(fp))])
       ELSE Err("invalid float literal")

\* truncation toward zero of a / b, b > 0
TruncDiv(a, b) == IF a >= 0 THEN a \div b ELSE -((-a) \div b)

(***************************************************************************)
(* Markup renderer.                                                        *)
(***************************************************************************)
PangoSpan_default == [color |-> None, font_family |-> None, font_size |-> None, weight |-> None]

\* as PangoSpan_fmt with the weight written before the font size
PangoSpan_fmt_reordered(self) ==
    "<span "
    \o (IF IsSome(self.color) THEN "color=\"" \o Unwrap(self.color) \o "\" " ELSE "")
    \o (IF IsSome(self.font_family)
        THEN "font_family=\"" \o Unwrap(self.font_family) \o "\" " ELSE "")
    \o (IF IsSome(self.weight) THEN "weight=\"" \o Unwrap(self.weight) \o "\" " ELSE "")
    \o (IF IsSome(self.font_size)
        THEN "font_size=\"" \o Unwrap(self.font_size) \o "\" " ELSE "")
    \o ">"

PangoSpan_fmt(self) ==
    "<span "
    \o (IF IsSome(self.color) THEN "color=\"" \o Unwrap(self.color) \o "\" " ELSE "")
    \o (IF IsSome(self.font_family)
        THEN "font_family=\"" \o Unwrap(self.font_family) \o "\" " ELSE "")
    \o (IF IsSome(self.font_size)
        THEN "font_size=\"" \o Unwrap(self.font_size) \o "\" " ELSE "")
    \o (IF IsSome(self.weight) THEN "weight=\"" \o Unwrap(self.weight) \o "\" " ELSE "")
    \o ">"

\* pango!(text, key = value, ...): keys is the record of the supplied keys
pango(text, keys) ==
    LET span == [k \in DOMAIN PangoSpan_default |->
                    IF k \in DOMAIN keys THEN Some(keys[k]) ELSE PangoSpan_default[k]]
    IN PangoSpan_fmt(span) \o text \o "</span>"

Theme_foreground == "#c0caf5"
Theme_white == "#a9b1d6"

(***************************************************************************)
(* Battery.                                                                *)
(***************************************************************************)
I32Max == 2147483647

\* (energy / energy_full * 100.0) as i32; x/0 is inf or NaN, the cast saturates
percentage(self) ==
    IF self.energy_full.n = 0
    THEN IF self.energy.n > 0 THEN I32Max
         ELSE IF self.energy.n < 0 THEN -I32Max - 1 ELSE 0
    ELSE LET num == self.energy.n * self.energy_full.d * 100
             den == self.energy.d * self.energy_full.n
         IN IF den > 0 THEN TruncDiv(num, den) ELSE TruncDiv(-num, -den)

\* Duration::from_secs_f64(hours * 3600.0), whole seconds; negative panics
time_to_empty_full(self) ==
    IF self.time_to_empty_full.n < 0
    THEN Panic("cannot convert float seconds to Duration: value is negative")
    ELSE Ok((self.time_to_empty_full.n * 3600) \div self.time_to_empty_full.d)

time_to_empty_full_str(self) ==
    LET duration == time_to_empty_full(self)
        hours == duration.val \div 3600
        minutes == (duration.val % 3600) \div 60
    IN IF IsPanic(duration) THEN duration
       ELSE Ok(Fmt02(hours) \o ":" \o Fmt02(minutes))

BatteryState(s) ==
    IF s = "charging" THEN "Charging"
    ELSE IF s = "discharging" THEN "Discharging"
    ELSE "Full"

\* as battery_field with one description for every line
battery_field_generic(output, prefix, name) ==
    LET line == find_prefix(lines(output), prefix)
        field == nth(split_whitespace(Unwrap(line)), 1).item
    IN IF ~IsSome(line) THEN Err("'upower' output is invalid")
       ELSE IF ~IsSome(field) THEN Err("'upower' output is invalid")
       ELSE Ok(Unwrap(field))

\* find the line and take its second field
battery_field(output, prefix, name) ==
    LET line == find_prefix(lines(output), prefix)
        field == nth(split_whitespace(Unwrap(line)), 1).item
    IN IF ~IsSome(line) THEN Err(name \o " not found")
       ELSE IF ~IsSome(field) THEN Err(name \o " format is invalid")
       ELSE Ok(Unwrap(field))

get_battery_info(output) ==
    LET ef_tok == battery_field(output, "energy-full:", "energy-full")
        energy_full == parse_f64(ef_tok.val)
        e_tok == battery_field(output, "energy:", "energy")
        energy == parse_f64(e_tok.val)
        tt_found == find_prefix(lines(output), "time to")
        time_to_line == split_whitespace(Unwrap(tt_found))
        tt_tok == nth(time_to_line, 3)
        tt_val == parse_f64(Unwrap(tt_tok.item))
        unit == nth(tt_tok.rest, 0).item
        tt_norm == IF Unwrap(unit) = "minutes"
                   THEN [n |-> tt_val.val.n, d |-> tt_val.val.d * 60]
                   ELSE tt_val.val
        st_tok == battery_field(output, "state:", "state")
    IN IF ~IsOk(ef_tok) THEN ef_tok
       ELSE IF ~IsOk(energy_full) THEN energy_full
       ELSE IF ~IsOk(e_tok) THEN e_tok
       ELSE IF ~IsOk(energy) THEN energy
       ELSE IF ~IsSome(tt_found) THEN Err("'time to {empty | full}' not found")
       ELSE IF ~IsSome(tt_tok.item) THEN Err("'time to {empty | full}' format is invalid")
       ELSE IF ~IsOk(tt_val) THEN tt_val
       ELSE IF ~IsSome(unit) THEN Err("'time to {empty | full}' format is invalid")
       ELSE IF ~IsOk(st_tok) THEN st_tok
       ELSE Ok([energy_full |-> energy_full.val,
                energy |-> energy.val,
                time_to_empty_full |-> tt_norm,
                state |-> BatteryState(st_tok.val)])

PlugGlyph == "{U+1F50C}"
BatteryGlyph == "{U+1F50B}"
LowBatteryGlyph == "{U+1FAAB}"

battery_icon(info) ==
    IF info.state = "Charging" THEN PlugGlyph
    ELSE IF percentage(info) >= 20 THEN BatteryGlyph
    ELSE LowBatteryGlyph

battery_line(info) ==
    pango(battery_icon(info), [font_size |-> "120%"]) \o " "
    \o pango(IntToString(percentage(info)),
             [color |-> Theme_foreground, weight |-> "ultrabold", font_size |-> "110%"])
    \o pango("%", [color |-> Theme_white]) \o " "
    \o pango(time_to_empty_full_str(info).val, [color |-> Theme_white])
    \o "\n"

\* what upower -i prints for the device
UpowerHead == "  native-path: BAT0\n  battery\n"
UpowerTail == "    energy-full-design: 57 Wh\n"

EnergyFullLines ==
    {"",
     "    energy-full: 50 Wh\n",
     "    energy-full: 0 Wh\n",
     "    energy-full:\n",
     "    energy-full: N/A Wh\n",
     "    energy-full: 40 Wh\n    energy-full:         50 Wh\n"}

EnergyLines ==
    {"",
     "    energy: 25 Wh\n",
     "    energy: 9.5 Wh\n",
     "    energy: 0 Wh\n",
     "    energy: 80 Wh\n",
     "    energy:\n",
     "    energy: 4,5 Wh\n"}

TimeToLines ==
    {"",
     "    time to empty: 4.5 hours\n",
     "    time to full: 45 minutes\n",
     "    time to empty: 6000 minutes\n",
     "    time to empty: -1 hours\n",
     "    time to empty:\n",
     "    time to empty: 4.5\n",
     "    time to empty: unknown hours\n"}

StateLines ==
    {"",
     "    state: charging\n",
     "    state: discharging\n",
     "    state: fully-charged\n",
     "    state:\n"}

\* outputs in which a required line comes twice
RepeatedEnergyFullLines ==
    {"    energy-full: 50 Wh\n",
     "    energy-full: 40 Wh\n    energy-full: 50 Wh\n",
     "    energy-full: 50 Wh\n    energy-full: N/A Wh\n"}

RepeatedEnergyLines ==
    {"    energy: 25 Wh\n",
     "    energy: 25 Wh\n    energy: 9.5 Wh\n",
     "    energy: 9.5 Wh\n    energy: 4,5 Wh\n",
     "    energy: 25 Wh\n    energy:\n"}

RepeatedTimeToLines ==
    {"    time to empty: 4.5 hours\n",
     "    time to empty: 4.5 hours\n    time to full: 45 minutes\n",
     "    time to full: 45 minutes\n    time to empty: 4.5 hours\n"}

RepeatedStateLines ==
    {"    state: discharging\n",
     "    state: charging\n    state: discharging\n",
     "    state: discharging\n    state: charging\n"}

RepeatedBatteryOutputs ==
    {UpowerHead \o s \o e \o ef \o t \o UpowerTail :
        s \in RepeatedStateLines, e \in RepeatedEnergyLines,
        ef \in RepeatedEnergyFullLines, t \in RepeatedTimeToLines}

BatteryOutputs ==
    {UpowerHead \o s \o e \o ef \o t \o UpowerTail :
        s \in StateLines, e \in EnergyLines, ef \in EnergyFullLines, t \in TimeToLines}
        \cup RepeatedBatteryOutputs

Failure(r) ==
    /\ stdout' = ""
    /\ stderr' = (IF IsPanic(r) THEN "panicked: " ELSE "Error: ") \o r.msg \o "\n"
    /\ exit' = (IF IsPanic(r) THEN "panic" ELSE "failure")

Success(out) ==
    /\ stdout' = out
    /\ stderr' = ""
    /\ exit' = "success"

\* as battery_info_or_exit with the test of the debug flag inverted
battery_info_or_exit_inverted(r, debug) ==
    IF ~debug
    THEN IF IsOk(r) THEN "info" ELSE "propagate"
    ELSE IF IsOk(r) THEN "info" ELSE "fallback"

\* as battery_info_or_exit with the parser's failure propagated in both modes
battery_info_or_exit_strict(r, debug) ==
    IF IsOk(r) THEN "info" ELSE "propagate"

\* main, the Battery arm up to the reading: what becomes of the parser's result
battery_info_or_exit(r, debug) ==
    IF debug
    THEN IF IsOk(r) THEN "info" ELSE "propagate"
    ELSE IF IsOk(r) THEN "info" ELSE "fallback"

Battery ==
    /\ pc = "start"
    /\ \E output \in BatteryOutputs, debug \in BOOLEAN :
          LET r == get_battery_info(output)
              how == battery_info_or_exit(r, debug)
          IN /\ cmd' = "Battery"
             /\ args' = [debug |-> debug]
             /\ input' = <<output>>
             /\ reading' = r
             /\ IF how = "propagate" THEN Failure(r)
                ELSE IF how = "fallback" THEN Success(PlugGlyph \o "\n")
                ELSE IF IsPanic(time_to_empty_full_str(r.val))
                     THEN Failure(time_to_empty_full_str(r.val))
                     ELSE Success(battery_line(r.val))
    /\ pc' = "done"

(***************************************************************************)
(* Memory.                                                                 *)
(***************************************************************************)
total_mib(self) == self.total \div 1024
used_mib(self) == self.used \div 1024

get_memory_info(output) ==
    LET line == nth(lines(output), 1).item
        fields == split_whitespace(Unwrap(line))
        total_tok == nth(fields, 1)
        total == parse_u64(Unwrap(total_tok.item))
        used_tok == nth(total_tok.rest, 0)
        used == parse_u64(Unwrap(used_tok.item))
    IN IF ~IsSome(line) THEN Err("'free' output is invalid")
       ELSE IF ~IsSome(total_tok.item) THEN Err("'free' output is invalid")
       ELSE IF ~IsOk(total) THEN total
       ELSE IF ~IsSome(used_tok.item) THEN Err("'free' output is invalid")
       ELSE IF ~IsOk(used) THEN used
       ELSE Ok([total |-> total.val, used |-> used.val])

memory_line(info) ==
    pango(NatToString(used_mib(info)),
          [color |-> Theme_foreground, weight |-> "ultrabold", font_size |-> "110%"])
    \o pango("/", [color |-> Theme_white])
    \o pango(NatToString(total_mib(info)),
             [color |-> Theme_foreground, weight |-> "ultrabold", font_size |-> "110%"])
    \o pango("MiB", [color |-> Theme_white])
    \o "\n"

\* what free prints
FreeHead == "       total   used   free\n"
FreeSwap == "Swap:  2097148   0   2097148\n"

MemLines ==
    {"",
     "Mem:   16303428   8151714   4000000\n",
     "Mem:   2048   1024   1024\n",
     "Mem:   1023   2047   0\n",
     "Mem:\n",
     "Mem:   16303428\n",
     "Mem:   15Gi   7.8Gi   3.8Gi\n",
     "Mem:   16303428   7.8Gi   3.8Gi\n"}

FreeOutputs == {""} \cup {FreeHead \o m \o sw : m \in MemLines, sw \in {"", FreeSwap}}

Memory ==
    /\ pc = "start"
    /\ \E output \in FreeOutputs :
          LET r == get_memory_info(output)
          IN /\ cmd' = "Memory"
             /\ args' = <<>>
             /\ input' = <<output>>
             /\ reading' = r
             /\ IF ~IsOk(r) THEN Failure(r) ELSE Success(memory_line(r.val))
    /\ pc' = "done"

(***************************************************************************)
(* Audio sink volume.                                                      *)
(***************************************************************************)
VolumeNorm == 65530

\* as left_pct with u16::MAX for the full scale
left_pct_u16max(self) == (self.left * 100) \div 65535

left_pct(self) == (self.left * 100) \div VolumeNorm
right_pct(self) == (self.right * 100) \div VolumeNorm

MuteGlyph == "{U+1F507}"
SpeakerLowGlyph == "{U+1F508}"
SpeakerMidGlyph == "{U+1F509}"
SpeakerHighGlyph == "{U+1F50A}"

volume_icon(value, mute) ==
    IF mute THEN MuteGlyph
    ELSE IF value = 0 THEN MuteGlyph
    ELSE IF value <= 33 THEN SpeakerLowGlyph
    ELSE IF value <= 66 THEN SpeakerMidGlyph
    ELSE SpeakerHighGlyph

left_icon(self) == volume_icon(left_pct(self), self.mute)
right_icon(self) == volume_icon(right_pct(self), self.mute)

\* volume_output, mute_output: what the two pactl queries print
pulseaudio_volume(volume_output, mute_output) ==
    LET line == nth(lines(volume_output), 0).item
        fields == split_whitespace(Unwrap(line))
        left_tok == nth(fields, 2)
        left == parse_u64(Unwrap(left_tok.item))
        right_tok == nth(left_tok.rest, 6)
        right == parse_u64(Unwrap(right_tok.item))
        mute_line == nth(lines(mute_output), 0).item
        mute == contains(Unwrap(mute_line), "yes")
    IN IF ~IsSome(line) THEN Err("'pactl' output is invalid")
       ELSE IF ~IsSome(left_tok.item) THEN Err("'pactl' output is invalid")
       ELSE IF ~IsOk(left) THEN left
       ELSE IF ~IsSome(right_tok.item) THEN Err("'pactl' output is invalid")
       ELSE IF ~IsOk(right) THEN right
       ELSE IF ~IsSome(mute_line) THEN Err("'pactl' output is invalid")
       ELSE Ok([left |-> left.val, right |-> right.val, mute |-> mute])

volume_line(info) ==
    pango(left_icon(info), [font_size |-> "120%"]) \o " "
    \o pango(NatToString(left_pct(info)),
             [color |-> Theme_foreground, weight |-> "ultrabold", font_size |-> "110%"])
    \o pango("%", [color |-> Theme_white])
    \o "\n"

\* what pactl get-sink-volume prints for a stereo sink: the template of the
\* comment in pulseaudio::volume, with the percentage pactl derives
RawVolumes == {0, 655, 21845, 32765, 43690, 65530, 65535, 98295}

PactlChannel(name, raw) ==
    name \o ": " \o NatToString(raw) \o " / "
    \o NatToString((raw * 100 + 32768) \div 65536) \o "% / -0.00 dB"

PactlTemplate(l, r) ==
    "Volume: " \o PactlChannel("front-left", l) \o ",   "
    \o PactlChannel("front-right", r) \o "\n        balance 0.00\n"

TemplateVolumeOutputs == {PactlTemplate(l, r) : l, r \in RawVolumes}

OtherVolumeOutputs ==
    {"",
     "Volume: front-left:\n",
     "Volume: mono: 65530 / 100% / 0.00 dB\n        balance 0.00\n",
     "Volume: front-left: 65530 / 100% / -0.00 dB,   front-right: muted / 0% / -inf dB\n",
     "No valid command specified.\n"}

VolumeOutputs == TemplateVolumeOutputs \cup OtherVolumeOutputs

MuteOutputs == {"", "Mute: yes\n", "Mute: no\n"}

SinkVolume ==
    /\ pc = "start"
    /\ \E volume_output \in VolumeOutputs, mute_output \in MuteOutputs :
          LET r == pulseaudio_volume(volume_output, mute_output)
          IN /\ cmd' = "SinkVolume"
             /\ args' = <<>>
             /\ input' = <<volume_output, mute_output>>
             /\ reading' = r
             /\ IF ~IsOk(r) THEN Failure(r) ELSE Success(volume_line(r.val))
    /\ pc' = "done"

(***************************************************************************)
(* Display brightness.                                                     *)
(***************************************************************************)
\* current * 100 / max; the division panics when max is 0
brightness_pct(self) ==
    IF self.max = 0 THEN Panic("attempt to divide by zero")
    ELSE Ok((self.current * 100) \div self.max)

MoonGlyphs == <<"{U+1F311}", "{U+1F312}", "{U+1F313}", "{U+1F314}", "{U+1F315}">>

brightness_icon(self) ==
    LET p == brightness_pct(self).val
    IN IF p = 0 THEN MoonGlyphs[1]
       ELSE IF p <= 33 THEN MoonGlyphs[2]
       ELSE IF p <= 66 THEN MoonGlyphs[3]
       ELSE IF p <= 99 THEN MoonGlyphs[4]
       ELSE MoonGlyphs[5]

\* split_whitespace().nth(2).unwrap().parse::<u64>().unwrap()
brightness_field(line) ==
    LET field == nth(split_whitespace(line), 2).item
        value == parse_u64(Unwrap(field))
    IN IF ~IsSome(field) THEN Panic("called 'Option::unwrap()' on a 'None' value")
       ELSE IF ~IsOk(value)
            THEN Panic("called 'Result::unwrap()' on an 'Err' value: " \o value.msg)
       ELSE value

\* the loop of brightness::info over the lines left, out being the reading so far
RECURSIVE brightness_scan(_, _)
brightness_scan(ls, out) ==
    IF Len(ls) = 0 THEN Ok(out)
    ELSE LET line == Head(ls)
             value == brightness_field(line)
         IN IF starts_with(trim_start(line), "Current brightness:")
            THEN IF IsPanic(value) THEN value
                 ELSE brightness_scan(Tail(ls), [out EXCEPT !.current = value.val])
            ELSE IF starts_with(trim_start(line), "Max brightness:")
            THEN IF IsPanic(value) THEN value
                 ELSE brightness_scan(Tail(ls), [out EXCEPT !.max = value.val])
            ELSE brightness_scan(Tail(ls), out)

brightness_info(output) == brightness_scan(lines(output), [current |-> 0, max |-> 1])

brightness_line(info) ==
    pango(brightness_icon(info), [font_size |-> "120%"]) \o " "
    \o pango(NatToString(brightness_pct(info).val),
             [color |-> Theme_foreground, weight |-> "ultrabold", font_size |-> "110%"])
    \o pango("%", [color |-> Theme_white])
    \o "\n"

\* what brightnessctl info prints
BrightnessHead == "Device 'intel_backlight' of class 'backlight':\n"

CurrentLines ==
    {"",
     "\tCurrent brightness: 0 (0%)\n",
     "\tCurrent brightness: 1 (0%)\n",
     "\tCurrent brightness: 4800 (50%)\n",
     "\tCurrent brightness: 9600 (100%)\n",
     "\tCurrent brightness:\n",
     "\tCurrent brightness: high\n",
     "\tCurrent brightness: 9600 (100%)\n\tCurrent brightness: 2400 (25%)\n",
     "\tCurrent brightness: 4800 (50%)\n\tCurrent brightness: high\n"}

MaxLines ==
    {"",
     "\tMax brightness: 9600\n",
     "\tMax brightness: 1\n",
     "\tMax brightness: 0\n",
     "\tMax brightness:\n",
     "\tMax brightness: n/a\n",
     "\tMax brightness: 9600\n\tMax brightness: 4800\n"}

BrightnessOutputs ==
    {""} \cup {BrightnessHead \o c \o m : c \in CurrentLines, m \in MaxLines}
         \cup {BrightnessHead \o m \o c : c \in CurrentLines, m \in MaxLines}

Brightness ==
    /\ pc = "start"
    /\ \E output \in BrightnessOutputs :
          LET r == brightness_info(output)
          IN /\ cmd' = "Brightness"
             /\ args' = <<>>
             /\ input' = <<output>>
             /\ reading' = r
             /\ IF ~IsOk(r) THEN Failure(r)
                ELSE IF IsPanic(brightness_pct(r.val)) THEN Failure(brightness_pct(r.val))
                ELSE Success(brightness_line(r.val))
    /\ pc' = "done"

(***************************************************************************)
(* Virtualization guests.                                                  *)
(***************************************************************************)
\* the loop of virsh::list over the lines left
RECURSIVE virsh_scan(_, _, _)
virsh_scan(ls, active, inactive) ==
    IF Len(ls) = 0 THEN Ok([active |-> active, inactive |-> inactive])
    ELSE LET fields == split_whitespace(trim_start(Head(ls)))
             id == nth(fields, 0)
             name == nth(id.rest, 0)
             state == nth(name.rest, 0)
         IN IF ~IsSome(name.item) THEN Err("invalid format")
            ELSE IF ~IsSome(state.item) THEN Err("invalid format")
            ELSE IF Unwrap(state.item) = "running"
                 THEN virsh_scan(Tail(ls), Append(active, Unwrap(name.item)), inactive)
            ELSE IF Unwrap(state.item) = "shut"
                 THEN virsh_scan(Tail(ls), active, Append(inactive, Unwrap(name.item)))
            ELSE virsh_scan(Tail(ls), active, inactive)

\* as virsh_list without the trim of the whole output
virsh_list_untrimmed(output) == virsh_scan(skip(lines(output), 2), <<>>, <<>>)

virsh_list(output) == virsh_scan(skip(lines(trim(output)), 2), <<>>, <<>>)

\* {:?} of a Vec<String> and of State
RECURSIVE DebugItems(_)
DebugItems(v) ==
    IF Len(v) = 0 THEN ""
    ELSE "\"" \o Head(v) \o "\"" \o (IF Len(v) > 1 THEN ", " ELSE "") \o DebugItems(Tail(v))

State_debug(self) ==
    "State { active: [" \o DebugItems(self.active)
    \o "], inactive: [" \o DebugItems(self.inactive) \o "] }"

\* what virsh list --all prints
MaxGuestLines == 3

VirshHead == " Id   Name   State\n----------------------\n"

GuestLines ==
    {" 1    vm1    running\n",
     " 4    vm5    running\n",
     " -    vm2    shut off\n",
     " -    vm6    shut off\n",
     " 2    vm3    paused\n",
     " -    vm4\n",
     "\n"}

RECURSIVE GuestTexts(_)
GuestTexts(k) ==
    IF k = 0 THEN {""}
    ELSE GuestTexts(k - 1) \cup {t \o g : t \in GuestTexts(k - 1), g \in GuestLines}

VirshOutputs ==
    {""} \cup {lead \o VirshHead \o t \o "\n" : lead \in {"", "\n"}, t \in GuestTexts(MaxGuestLines)}

VirshActive ==
    /\ pc = "start"
    /\ \E output \in VirshOutputs :
          LET r == virsh_list(output)
          IN /\ cmd' = "VirshActive"
             /\ args' = <<>>
             /\ input' = <<output>>
             /\ reading' = r
             /\ IF ~IsOk(r) THEN Failure(r) ELSE Success(State_debug(r.val))
    /\ pc' = "done"

(***************************************************************************)
(* Clocks.  The clock source supplies the local date and time.             *)
(***************************************************************************)
Clocks ==
    [hour : 0..23, minute : {5, 59}, second : {0, 42},
     year : {2024}, month : {3, 12}, day : {9}]

\* chrono's %Y-%m-%d
FormatDate(time) ==
    NatToString(time.year) \o "-" \o Fmt02(time.month) \o "-" \o Fmt02(time.day)

\* chrono's %H:%M:%S and %H:%M
Time_time_str(time, seconds) ==
    Fmt02(time.hour) \o ":" \o Fmt02(time.minute)
    \o (IF seconds THEN ":" \o Fmt02(time.second) ELSE "")

Time_time_of_day(hour) == IF hour <= 11 THEN "AM" ELSE "PM"

Time ==
    /\ pc = "start"
    /\ \E time \in Clocks, seconds \in BOOLEAN, date \in BOOLEAN :
          /\ cmd' = "Time"
          /\ args' = [seconds |-> seconds, date |-> date]
          /\ input' = <<time>>
          /\ reading' = NoReading
          /\ Success((IF date THEN FormatDate(time) \o " " ELSE "")
                     \o Time_time_str(time, seconds) \o " "
                     \o Time_time_of_day(time.hour) \o "\n")
    /\ pc' = "done"

\* as TimeZh_time_str without the change of hour 0 to 12
TimeZh_time_str_zero(time, seconds, am_pm) ==
    LET h == time.hour % (IF am_pm THEN 12 ELSE 24)
    IN Fmt02(h) \o ":" \o Fmt02(time.minute)
       \o (IF seconds THEN ":" \o Fmt02(time.second) ELSE "")

TimeZh_time_str(time, seconds, am_pm) ==
    LET h0 == time.hour % (IF am_pm THEN 12 ELSE 24)
        h == IF h0 = 0 /\ am_pm THEN 12 ELSE h0
    IN Fmt02(h) \o ":" \o Fmt02(time.minute)
       \o (IF seconds THEN ":" \o Fmt02(time.second) ELSE "")

\* the five day periods, and the glyphs for year, month and day
TimeZh_time_of_day(hour) ==
    IF hour <= 5 THEN "{U+51CC}{U+6668}"
    ELSE IF hour <= 11 THEN "{U+4E0A}{U+5348}"
    ELSE IF hour <= 13 THEN "{U+4E2D}{U+5348}"
    ELSE IF hour <= 17 THEN "{U+4E0B}{U+5348}"
    ELSE "{U+665A}{U+4E0A}"

TimeZh_date(time) ==
    LET num(n) == pango(NatToString(n),
                        [color |-> Theme_foreground, font_size |-> "110%",
                         weight |-> "ultrabold"])
    IN num(time.year) \o pango("{U+5E74}", [color |-> Theme_white])
       \o num(time.month) \o pango("{U+6708}", [color |-> Theme_white])
       \o num(time.day) \o pango("{U+65E5}", [color |-> Theme_white])

TimeZh_line(time, seconds, date, am_pm) ==
    IF date
    THEN TimeZh_date(time) \o " "
         \o pango(TimeZh_time_str(time, seconds, am_pm),
                  [color |-> Theme_foreground, weight |-> "ultrabold",
                   font_size |-> "120%"])
         \o " " \o pango(TimeZh_time_of_day(time.hour), [color |-> Theme_white]) \o "\n"
    ELSE TimeZh_time_str(time, seconds, am_pm) \o " "
         \o TimeZh_time_of_day(time.hour) \o "\n"

TimeZh ==
    /\ pc = "start"
    /\ \E time \in Clocks, seconds \in BOOLEAN, date \in BOOLEAN, am_pm \in BOOLEAN :
          /\ cmd' = "TimeZh"
          /\ args' = [seconds |-> seconds, date |-> date, am_pm |-> am_pm]
          /\ input' = <<time>>
          /\ reading' = NoReading
          /\ Success(TimeZh_line(time, seconds, date, am_pm))
    /\ pc' = "done"

Init ==
    /\ pc = "start"
    /\ cmd = ""
    /\ args = <<>>
    /\ input = <<>>
    /\ reading = NoReading
    /\ stdout = ""
    /\ stderr = ""
    /\ exit = "running"

Next ==
    \/ Battery
    \/ Memory
    \/ SinkVolume
    \/ Brightness
    \/ VirshActive
    \/ Time
    \/ TimeZh

Spec == Init /\ [][Next]_vars

(***************************************************************************)
(* The markup renderer on its own: pango! applied to a fragment with any   *)
(* subset of the four attributes.                                          *)
(***************************************************************************)
PangoKeys == {"color", "font_family", "font_size", "weight"}

PangoValues ==
    [color |-> <<Theme_foreground, Theme_white>>,
     font_family |-> <<"monospace", "Noto Sans">>,
     font_size |-> <<"120%", "110%">>,
     weight |-> <<"ultrabold", "bold">>]

PangoKeySets ==
    {[k \in S |-> PangoValues[k][c[k]]] : S \in SUBSET PangoKeys, c \in [PangoKeys -> {1, 2}]}

PangoTexts == {"%", "42", ""}

InitPango ==
    /\ pc = "start"
    /\ cmd = "pango"
    /\ args \in PangoKeySets
    /\ input \in {<<t>> : t \in PangoTexts}
    /\ reading = NoReading
    /\ stdout = ""
    /\ stderr = ""
    /\ exit = "running"

PangoMacro ==
    /\ pc = "start"
    /\ cmd = "pango"
    /\ stdout' = pango(input[1], args)
    /\ pc' = "done"
    /\ UNCHANGED <<cmd, args, input, reading, stderr, exit>>

NextPango ==
    \/ PangoMacro

SpecPango == InitPango /\ [][NextPango]_vars

(***************************************************************************)
(* Properties.                                                             *)
(***************************************************************************)
Done(c) == pc = "done" /\ cmd = c

ProcessFailed == exit \in {"failure", "panic"}

Least(S, default) == IF S = {} THEN default ELSE CHOOSE i \in S : \A j \in S : i <= j
Greatest(S, default) == IF S = {} THEN default ELSE CHOOSE i \in S : \A j \in S : i >= j

Count(s, p) ==
    Cardinality({i \in 1..(Len(s) - Len(p) + 1) : SubSeq(s, i, i + Len(p) - 1) = p})

IndexOf(s, p) ==
    Least({i \in 1..(Len(s) - Len(p) + 1) : SubSeq(s, i, i + Len(p) - 1) = p}, 0)

ends_with(s, p) == Len(s) >= Len(p) /\ SubSeq(s, Len(s) - Len(p) + 1, Len(s)) = p

\* the text inside the k-th span of a printed line
SpanText(s, k) ==
    LET closes == {i \in 1..(Len(s) - 6) : SubSeq(s, i, i + 6) = "</span>"}
        close == CHOOSE i \in closes : Cardinality({j \in closes : j < i}) = k - 1
        open == Greatest({j \in 1..(close - 1) : CharAt(s, j) = ">"}, 0)
    IN SubSeq(s, open + 1, close - 1)

HasLine(output, prefix) ==
    LET ls == lines(output)
    IN \E i \in 1..Len(ls) : starts_with(trim_start(ls[i]), prefix)

\* the fields of the first line of output with the prefix
FieldsOf(output, prefix) ==
    LET ls == lines(output)
        first == Least({i \in 1..Len(ls) : starts_with(trim_start(ls[i]), prefix)}, 0)
    IN IF first = 0 THEN <<>> ELSE split_whitespace(ls[first])

IsDecimal(tok) == IsOk(parse_f64(tok))
IsUnsigned(tok) == IsOk(parse_u64(tok))

\* C1: Battery with no energy-full: line in the upower output: without debug
\* the fallback glyph alone is printed and the exit is successful; with debug
\* the process fails and the message mentions energy-full.
C1_MissingEnergyFull ==
    (Done("Battery") /\ ~HasLine(input[1], "energy-full:")) =>
        IF args.debug
        THEN exit = "failure" /\ contains(stderr, "energy-full") /\ stdout = ""
        ELSE exit = "success" /\ stdout = PlugGlyph \o "\n"

C1_Witness ==
    /\ Done("Battery") /\ ~HasLine(input[1], "energy-full:")
    /\ HasLine(input[1], "energy:") /\ HasLine(input[1], "state:")
    /\ args.debug /\ exit = "failure"

\* a required line and field are present and the field is not a number
BatteryMalformedNumeric(output) ==
    \/ Len(FieldsOf(output, "energy-full:")) >= 2
         /\ ~IsDecimal(FieldsOf(output, "energy-full:")[2])
    \/ Len(FieldsOf(output, "energy:")) >= 2 /\ ~IsDecimal(FieldsOf(output, "energy:")[2])
    \/ Len(FieldsOf(output, "time to")) >= 4 /\ ~IsDecimal(FieldsOf(output, "time to")[4])

\* C2 as stated: a malformed number in the battery output ends in a process
\* failure in debug mode and in default mode alike.
C2_MalformedNeverSwallowed ==
    (Done("Battery") /\ BatteryMalformedNumeric(input[1])) => ProcessFailed

\* C2: a malformed number in the battery output ends in a process failure
\* in debug mode only; in default mode it is swallowed as every other parser
\* failure is: the fallback glyph is printed and the exit is successful.
C2_MalformedSwallowedByDefault ==
    (Done("Battery") /\ BatteryMalformedNumeric(input[1])) =>
        IF args.debug
        THEN exit = "failure" /\ stdout = ""
        ELSE exit = "success" /\ stdout = PlugGlyph \o "\n"

C2_Witness ==
    /\ Done("Battery") /\ ~args.debug
    /\ HasLine(input[1], "energy-full:") /\ IsDecimal(FieldsOf(input[1], "energy-full:")[2])
    /\ Len(FieldsOf(input[1], "energy:")) >= 2 /\ ~IsDecimal(FieldsOf(input[1], "energy:")[2])
    /\ reading = Err("invalid float literal")
    /\ exit = "success"

\* C3 as stated: no parser panics; a missing line, a missing field or a
\* malformed number gives a failure value, from the brightness parser too.
C3_ParsersNeverPanic ==
    (pc = "done" /\ cmd \in {"Battery", "Memory", "SinkVolume", "Brightness", "VirshActive"})
        => reading.tag \in {"Ok", "Err"}

C3_PanicReached ==
    /\ Done("Brightness") /\ IsPanic(reading) /\ exit = "panic"
    /\ Len(FieldsOf(input[1], "Current brightness:")) = 2

\* what a parser failed on first: the line, its field, or the number in the field
Item(label, kind) == [label |-> label, kind |-> kind]
NoItem == Item("", "none")

SecondField(output, prefix, label) ==
    IF ~HasLine(output, prefix) THEN Item(label, "line")
    ELSE IF Len(FieldsOf(output, prefix)) < 2 THEN Item(label, "field")
    ELSE NoItem

SecondNumber(output, prefix, label) ==
    IF SecondField(output, prefix, label) # NoItem THEN SecondField(output, prefix, label)
    ELSE IF ~IsDecimal(FieldsOf(output, prefix)[2]) THEN Item(label, "number")
    ELSE NoItem

TimeToItem(output) ==
    LET f == FieldsOf(output, "time to")
    IN IF ~HasLine(output, "time to") THEN Item("time to", "line")
       ELSE IF Len(f) < 4 THEN Item("time to", "field")
       ELSE IF ~IsDecimal(f[4]) THEN Item("time to", "number")
       ELSE IF Len(f) < 5 THEN Item("time to", "field")
       ELSE NoItem

FirstItem(items) ==
    LET failing == {i \in 1..Len(items) : items[i] # NoItem}
    IN IF failing = {} THEN NoItem ELSE items[Least(failing, 0)]

BatteryItem(output) ==
    FirstItem(<<SecondNumber(output, "energy-full:", "energy-full"),
                SecondNumber(output, "energy:", "energy"),
                TimeToItem(output),
                SecondField(output, "state:", "state")>>)

\* the k-th field of the n-th line of output
NthLineItem(output, n, k, label, numeric) ==
    LET ls == lines(output)
        f == split_whitespace(ls[n])
    IN IF Len(ls) < n THEN Item(label, "line")
       ELSE IF Len(f) < k THEN Item(label, "field")
       ELSE IF numeric /\ ~IsUnsigned(f[k]) THEN Item(label, "number")
       ELSE NoItem

MemoryItem(output) ==
    FirstItem(<<NthLineItem(output, 2, 2, "total", TRUE),
                NthLineItem(output, 2, 3, "used", TRUE)>>)

VolumeItem(volume_output, mute_output) ==
    FirstItem(<<NthLineItem(volume_output, 1, 3, "left", TRUE),
                NthLineItem(volume_output, 1, 10, "right", TRUE),
                NthLineItem(mute_output, 1, 1, "mute", FALSE)>>)

FailedItem ==
    IF cmd = "Battery" THEN BatteryItem(input[1])
    ELSE IF cmd = "Memory" THEN MemoryItem(input[1])
    ELSE VolumeItem(input[1], input[2])

\* the line names at the head of the battery parser's descriptions
BatteryLabels ==
    [l \in {"energy-full", "energy", "state"} |-> l]
        @@ ("time to" :> "'time to {empty | full}'")

WellFormedBattery ==
    /\ Done("Battery") /\ IsOk(reading)
    /\ reading.val.energy_full.n > 0
    /\ reading.val.energy.n >= 0
    /\ reading.val.time_to_empty_full.n >= 0

IsHHMM(t) ==
    /\ Len(t) = 5
    /\ IsDigit(CharAt(t, 1)) /\ IsDigit(CharAt(t, 2))
    /\ CharAt(t, 3) = ":"
    /\ IsDigit(CharAt(t, 4)) /\ IsDigit(CharAt(t, 5))

PrintedPercentage == SpanText(stdout, 2)
PrintedDuration == SpanText(stdout, 4)

PercentageInRange ==
    /\ Len(PrintedPercentage) > 0 /\ AllDigits(PrintedPercentage)
    /\ DigitsValue(PrintedPercentage) <= 100

EnergyWithinFull ==
    reading.val.energy.n * reading.val.energy_full.d
        <= reading.val.energy_full.n * reading.val.energy.d
UnderHundredHours ==
    reading.val.time_to_empty_full.n < 100 * reading.val.time_to_empty_full.d

C6_PercentageDefined ==
    (Done("Brightness") /\ IsOk(reading)) => reading.val.max # 0 /\ exit = "success"

C6_DivisionByZeroReached ==
    /\ Done("Brightness") /\ IsOk(reading) /\ reading.val.max = 0 /\ exit = "panic"
    /\ FieldsOf(input[1], "Max brightness:")[3] = "0"

\* the guest lines of a listing: what follows the first two lines
GuestLinesOf(output, trimmed) == skip(lines(IF trimmed THEN trim(output) ELSE output), 2)

NonEmpty(line) == Len(line) > 0
Complete(line) == Len(split_whitespace(line)) >= 3
NameOf(line) == split_whitespace(line)[2]
StateOf(line) == split_whitespace(line)[3]

NamesIn(ls, state) ==
    LET chosen == SelectSeq(ls, LAMBDA l : StateOf(l) = state)
    IN [i \in 1..Len(chosen) |-> NameOf(chosen[i])]

AllOf(ls, P(_)) == \A i \in 1..Len(ls) : P(ls[i])

\* C7 as stated: the lines after the first two that are not empty are
\* classified by their third field, in input order; an empty line is passed
\* over without error.
C7_EmptyLinesPassedOver ==
    LET ls == SelectSeq(GuestLinesOf(input[1], FALSE), NonEmpty)
    IN (Done("VirshActive") /\ AllOf(ls, Complete)) =>
          /\ IsOk(reading)
          /\ reading.val.active = NamesIn(ls, "running")
          /\ reading.val.inactive = NamesIn(ls, "shut")

\* C7: the output is trimmed of leading and trailing whitespace, then its
\* first two lines are skipped.  When every remaining line has three fields,
\* active holds the names of the running lines and inactive those of the shut
\* lines, in input order, and lines in any other state are dropped without
\* error.  A remaining line of fewer than three fields, an empty line between
\* guest lines included, makes the parser fail with "invalid format"; only
\* the empty lines at the ends of the output cause no error.
C7_TrimmedThenClassified ==
    LET ls == GuestLinesOf(input[1], TRUE)
    IN Done("VirshActive") =>
          IF AllOf(ls, Complete)
          THEN /\ IsOk(reading)
               /\ reading.val.active = NamesIn(ls, "running")
               /\ reading.val.inactive = NamesIn(ls, "shut")
          ELSE reading = Err("invalid format") /\ exit = "failure"

C7_Witness ==
    /\ Done("VirshActive") /\ IsOk(reading)
    /\ reading.val.active = <<"vm5", "vm1">>
    /\ reading.val.inactive = <<"vm2">>
    /\ stdout = "State { active: [\"vm5\", \"vm1\"], inactive: [\"vm2\"] }"

\* C8: for a first line that follows the template, with raw values l and r,
\* and a mute answer, the reading has left = l and right = r, and the printed
\* percentage is l * 100 integer-divided by 65530: 100 for 65530, 50 for
\* 32765, which 65535 would not give.
C8_VolumeTemplate ==
    \A l, r \in RawVolumes :
        (Done("SinkVolume") /\ input[1] = PactlTemplate(l, r) /\ Len(input[2]) > 0) =>
            /\ IsOk(reading)
            /\ reading.val.left = l /\ reading.val.right = r
            /\ right_pct(reading.val) * 65530 <= r * 100
            /\ r * 100 < (right_pct(reading.val) + 1) * 65530
            /\ exit = "success"
            /\ AllDigits(SpanText(stdout, 2))
            /\ DigitsValue(SpanText(stdout, 2)) * 65530 <= l * 100
            /\ l * 100 < (DigitsValue(SpanText(stdout, 2)) + 1) * 65530
            /\ (l = 65530 => SpanText(stdout, 2) = "100")
            /\ (l = 32765 => SpanText(stdout, 2) = "50")
            /\ (r = 65530 => right_pct(reading.val) = 100)

C8_Witness ==
    /\ Done("SinkVolume") /\ input[1] = PactlTemplate(65530, 32765)
    /\ reading = Ok([left |-> 65530, right |-> 32765, mute |-> FALSE])
    /\ SpanText(stdout, 2) = "100"

PangoOrder == <<"color", "font_family", "font_size", "weight">>

\* the text an attribute takes in the wrapper: key="value" and a space
AttributeText(k) == k \o "=\"" \o args[k] \o "\" "

RECURSIVE AttributesLen(_)
AttributesLen(i) ==
    IF i = 0 THEN 0
    ELSE AttributesLen(i - 1)
         + (IF PangoOrder[i] \in DOMAIN args THEN Len(AttributeText(PangoOrder[i])) ELSE 0)

\* C9: the rendered span holds each supplied attribute once and no other, in
\* the order color, font family, font size, weight, then the fragment; there
\* is no other text in the wrapper, so without attributes it holds none.
C9_PangoAttributes ==
    Done("pango") =>
        /\ \A k \in PangoKeys :
              Count(stdout, k \o "=\"") = (IF k \in DOMAIN args THEN 1 ELSE 0)
        /\ \A k \in DOMAIN args : Count(stdout, AttributeText(k)) = 1
        /\ \A i, j \in 1..4 :
              (i < j /\ PangoOrder[i] \in DOMAIN args /\ PangoOrder[j] \in DOMAIN args) =>
                  IndexOf(stdout, AttributeText(PangoOrder[i]))
                      < IndexOf(stdout, AttributeText(PangoOrder[j]))
        /\ starts_with(stdout, "<span ")
        /\ ends_with(stdout, ">" \o input[1] \o "</span>")
        /\ Len(stdout) = Len("<span ") + AttributesLen(4) + Len(">") + Len(input[1])
                            + Len("</span>")
        /\ (DOMAIN args = {} => stdout = "<span >" \o input[1] \o "</span>")

C9_Witness ==
    /\ Done("pango") /\ DOMAIN args = {"font_size", "weight"}
    /\ stdout = "<span font_size=\"110%\" weight=\"bold\" >42</span>"

C9_WitnessNoAttributes ==
    Done("pango") /\ DOMAIN args = {} /\ stdout = "<span >%</span>"

\* the hour a printed TimeZh line shows: the first field of the time
DisplayedTime == IF args.date THEN SpanText(stdout, 7) ELSE stdout
DisplayedHour == SubSeq(DisplayedTime, 1, 2)

\* C10: TimeZh shows the hour in two digits followed by a colon; in 12-hour
\* mode it is the hour modulo 12 with 0 shown as 12, so it is in 1..12; in
\* 24-hour mode it is the hour itself, 00 for hour 0.
C10_DisplayedHour ==
    Done("TimeZh") =>
        LET h == input[1].hour
        IN /\ AllDigits(DisplayedHour) /\ Len(DisplayedHour) = 2
           /\ CharAt(DisplayedTime, 3) = ":"
           /\ IF args.am_pm
              THEN /\ DigitsValue(DisplayedHour) \in 1..12
                   /\ (DigitsValue(DisplayedHour) - h) % 12 = 0
              ELSE DigitsValue(DisplayedHour) = h
           /\ (h = 0 => DisplayedHour = (IF args.am_pm THEN "12" ELSE "00"))

C10_Witness ==
    /\ Done("TimeZh") /\ input[1].hour = 0 /\ args.am_pm /\ args.date
    /\ DisplayedHour = "12"

C10_Witness24 ==
    Done("TimeZh") /\ input[1].hour = 0 /\ ~args.am_pm /\ DisplayedHour = "00"

\* the indexes of the lines of ls whose left-trimmed text starts with prefix
Matching(ls, prefix) == {i \in 1..Len(ls) : starts_with(trim_start(ls[i]), prefix)}

RECURSIVE Join(_)
Join(ls) == IF Len(ls) = 0 THEN "" ELSE Head(ls) \o "\n" \o Join(Tail(ls))

\* output without the lines that match one of the prefixes after its first match
RECURSIVE WithoutLater(_, _)
WithoutLater(ls, prefixes) ==
    IF Len(ls) = 0 THEN <<>>
    ELSE LET n == Len(ls)
             later == \E p \in prefixes :
                         n \in Matching(ls, p) /\ Least(Matching(ls, p), 0) < n
         IN WithoutLater(SubSeq(ls, 1, n - 1), prefixes)
            \o (IF later THEN <<>> ELSE <<ls[n]>>)

FirstOnly(output, prefixes) == Join(WithoutLater(lines(output), prefixes))

Repeated(output, prefixes) ==
    \E p \in prefixes : Cardinality(Matching(lines(output), p)) > 1

BatteryPrefixes == {"energy-full:", "energy:", "time to", "state:"}
BrightnessPrefixes == {"Current brightness:", "Max brightness:"}

\* the third field of the first or the last line with the prefix, as a number
BrightnessValueAt(output, prefix, last, default) ==
    LET ls == lines(output)
        at == IF last THEN Greatest(Matching(ls, prefix), 0)
              ELSE Least(Matching(ls, prefix), 0)
    IN IF at = 0 THEN default ELSE DigitsValue(split_whitespace(ls[at])[3])

BatteryFirstMatchWins ==
    Done("Battery") =>
        /\ reading = get_battery_info(FirstOnly(input[1], BatteryPrefixes))
        /\ IsOk(reading) =>
              /\ reading.val.energy_full = parse_f64(FieldsOf(input[1], "energy-full:")[2]).val
              /\ reading.val.energy = parse_f64(FieldsOf(input[1], "energy:")[2]).val
              /\ reading.val.state = BatteryState(FieldsOf(input[1], "state:")[2])
              /\ reading.val.time_to_empty_full.n
                    = parse_f64(FieldsOf(input[1], "time to")[4]).val.n
              /\ reading.val.time_to_empty_full.d
                    = parse_f64(FieldsOf(input[1], "time to")[4]).val.d
                        * (IF FieldsOf(input[1], "time to")[5] = "minutes" THEN 60 ELSE 1)

\* C11 as stated: in the battery and the brightness parser the reading is
\* taken from the first line with each prefix, and the later lines with the
\* prefix have no effect on the result.
C11_FirstMatchWins ==
    /\ BatteryFirstMatchWins
    /\ Done("Brightness") =>
          /\ reading = brightness_info(FirstOnly(input[1], BrightnessPrefixes))
          /\ IsOk(reading) =>
                /\ reading.val.current
                      = BrightnessValueAt(input[1], "Current brightness:", FALSE, 0)
                /\ reading.val.max = BrightnessValueAt(input[1], "Max brightness:", FALSE, 1)

\* every line with a brightness prefix has a numeric third field
BrightnessLinesParse(output) ==
    LET ls == lines(output)
    IN \A p \in BrightnessPrefixes : \A i \in Matching(ls, p) :
          /\ Len(split_whitespace(ls[i])) >= 3
          /\ IsUnsigned(split_whitespace(ls[i])[3])

\* C11: first match wins in the battery parser: each of energy-full:,
\* energy:, time to and state: is read from its first line, and the later
\* lines with the prefix have no effect.  The brightness parser reads every
\* line with Current brightness: or Max brightness:, each overwriting the
\* value: the reading holds the value of the last such line, and a later
\* matching line without a numeric third field stops the parse with a panic.
C11_FirstInBatteryLastInBrightness ==
    /\ BatteryFirstMatchWins
    /\ Done("Brightness") =>
          IF BrightnessLinesParse(input[1])
          THEN reading =
                 Ok([current |-> BrightnessValueAt(input[1], "Current brightness:", TRUE, 0),
                     max |-> BrightnessValueAt(input[1], "Max brightness:", TRUE, 1)])
          ELSE IsPanic(reading)

C11_Witness ==
    /\ Done("Battery") /\ IsOk(reading)
    /\ \A p \in BatteryPrefixes : Cardinality(Matching(lines(input[1]), p)) = 2
    /\ reading.val.energy_full = [n |-> 40, d |-> 1]
    /\ reading.val.energy = [n |-> 25, d |-> 1]
    /\ reading.val.time_to_empty_full = [n |-> 45, d |-> 60]
    /\ reading.val.state = "Charging"

C11_WitnessBrightness ==
    /\ Done("Brightness") /\ Repeated(input[1], BrightnessPrefixes)
    /\ reading = Ok([current |-> 2400, max |-> 4800]) /\ exit = "success"

====
